---- MODULE Spec2Model ----
(***************************************************************************)
(* bubblewarp: a persistent namespace set (user, pid, mount, net) holding  *)
(* a VPN client and a SOCKS proxy, built by `up` and torn down by `down`.  *)
(*                                                                         *)
(* The state is the part of the operating system the two commands read    *)
(* and write: the base directory and the mount table, the process table,   *)
(* the veth pair, the namespace's default route and the firewall table.    *)
(* Each command is one action; the outcome of every external command it    *)
(* issues (which of them fail, what the unshare poll observes) is drawn    *)
(* from a small set.                                                       *)
(***************************************************************************)
EXTENDS Integers, Sequences, FiniteSets, Bags, TLC

\* ------------------------------------------------------------------ bounds

\* Namespace sets that may be created over a behaviour.
MaxNs == 2
\* The largest process id (pid 1 is the host's init); the ids of processes
\* that have exited are handed out again.
MaxPid == 6
\* Entries the firewall table may hold.
MaxRules == 4
\* Overlays that may be stacked on /etc of one mount namespace.
MaxOverlays == 2
\* Pieces of the route-query output given to parse_iface_name on its own.
MaxOut == 5
\* The largest pid of a process table given to find_process_in_namespace on
\* its own.
MaxFindPid == 4

\* --------------------------------------------------------------- constants

\* enum Type, in the order Type::iter() yields the variants.
TypeOrder == <<"user", "pid", "mount", "net">>

Types == {TypeOrder[i] : i \in 1..Len(TypeOrder)}

\* Type::COUNT
TypeCount == Len(TypeOrder)

\* The order in which the unshare helper bind-mounts the namespace files
\* onto the mount points given by --user, --net, --pid and --mount.
BindOrder == <<"user", "net", "pid", "mount">>

NoErr == "ok"

\* Strings the code compares by suffix are sequences of pieces, so that
\* ends_with is computed and not assumed.
WarpSvc == <<"warp-svc">>
DantedPath == <<"/usr/sbin/", "danted">>
Danted == <<"danted">>
DantedIoChild == <<"danted", ": io-chil">>
Tini == <<"tini">>
Unshare == <<"unshare">>

\* 10.200.0.2, 10.200.0.0 and 10.200.0.1 as 32-bit numbers, and the prefix length.
Addr_10_200_0_2 == 10 * 16777216 + 200 * 65536 + 2
Addr_10_200_0_0 == 10 * 16777216 + 200 * 65536
PrefixLen == 24

\* Text is a sequence of pieces, a piece being one space or a run of other
\* characters; a token of a split is again a sequence of pieces.
\* The interface of the host's default route.
HostIface == <<"eth0">>

\* What `ip route show default` prints on the host.
HostRouteOutput ==
    <<"default", " ", "via", " ", "10.0.0.1", " ", "dev", " ", "eth0", " ",
      "proto", " ", "static", " ", "\n">>

\* --------------------------------------------------------------- variables

VARIABLES
    baseExists,   \* the base directory exists
    baseBind,     \* self bind mounts stacked on the base directory
    basePrivate,  \* the top self bind mount has private propagation
    mpExists,     \* the namespace mount point files that exist
    nsMount,      \* kind -> namespace set bound at its mount point (0: none)
    procs,        \* the process table
    nextNs,       \* the next namespace set id
    etcOverlays,  \* overlays stacked on /etc of the newest namespace set
    procMnt,      \* /proc of the newest namespace set is mounted
    confWritten,  \* the two files of extra_lower have been written
    hostVeth,     \* veth-warp in the host: absent, down, addr, up
    nsVeth,       \* veth-warp-ns: [ns, st]; ns 0 is absent
    nsRoute,      \* the newest set's network namespace has a default route
    rules,        \* the firewall table, a bag of entries
    last,         \* the outcome of the last command
    fnIn,         \* the input of a function called on its own
    fnOut         \* its result

vars == <<baseExists, baseBind, basePrivate, mpExists, nsMount, procs, nextNs,
          etcOverlays, procMnt, confWritten, hostVeth, nsVeth, nsRoute,
          rules, last, fnIn, fnOut>>

\* ------------------------------------------------------------ environment

\* The external commands and system calls of up and of down that may fail on
\* their own, whatever the state: each is named where it is issued (Cmd).
UpFaultPoints ==
    {"mkdir_base", "mount_bind", "mount_private", "umount_rollback",
     "create_mount_point", "spawn_unshare",
     "spawn_mount_query", "mkdir_overlay", "write_conf", "spawn_mount_overlay",
     "mount_overlay",
     "ip_link_add", "ip_addr_add", "ip_link_up", "ns_addr_add",
     "ns_link_up", "ns_route_show", "host_route_show",
     "iptables_A_masq", "iptables_A_fwd_in", "iptables_A_fwd_out", "ns_route_add",
     "spawn_warp_svc", "spawn_danted"}

DownFaultPoints ==
    {"kill_warp_svc", "kill_danted", "kill_io_child", "umount_proc", "umount_etc",
     "host_route_show", "ip_link_delete",
     "umount_user", "umount_pid", "umount_mount", "umount_net", "umount_base"}

\* What the poll of create_namespaces can observe of the unshare helper.
\*   exited    the helper has exited, after binding the first n mount points
\*   tasks     the helper shows a number of tasks other than one
\*   children  the helper shows more than one child
\*   child     the helper shows one child, the init process, alive or not
\*   timeout   the helper shows no child for one second, n mount points bound;
\*             the helper is given up and is not followed further
\*   early     the helper shows one child when it has bound n < 4 mount
\*             points: the loop does not look at the mount points, and the
\*             child is one the helper forked for its own setup, before the
\*             init process; the helper then binds the remaining mount points
\*             and forks the init process, and its setup child exits
PollOutcomes ==
    [res : {"exited", "timeout"}, n : 0..TypeCount, alive : {TRUE}]
    \cup [res : {"early"}, n : 0..(TypeCount - 1), alive : {TRUE}]
    \cup [res : {"tasks", "children"}, n : {TypeCount}, alive : {TRUE}]
    \cup [res : {"child"}, n : {TypeCount}, alive : BOOLEAN]

NormalPoll == [res |-> "child", n |-> TypeCount, alive |-> TRUE]

\* ------------------------------------------------------------ world record

\* The state as one record, threaded through the steps of a command; err,
\* calls, failed, init and over are the command's own: its error, the commands
\* it issued and the steps it entered, whether its last command failed, the
\* init process handle it holds, the kinds that were mounted when
\* create_namespaces returned it, and whether a bound of the model was met.
World ==
    [baseExists |-> baseExists, baseBind |-> baseBind, basePrivate |-> basePrivate,
     mpExists |-> mpExists, nsMount |-> nsMount, procs |-> procs,
     nextNs |-> nextNs, etcOverlays |-> etcOverlays,
     procMnt |-> procMnt, confWritten |-> confWritten, hostVeth |-> hostVeth,
     nsVeth |-> nsVeth, nsRoute |-> nsRoute, rules |-> rules,
     err |-> NoErr, calls |-> {}, log |-> <<>>, failed |-> FALSE, init |-> 0,
     seen |-> {}, over |-> FALSE]

\* The command c is issued; it fails on its own when the environment says so.
\* calls keeps every command issued, log their order, failed whether the last
\* one failed.
Cmd(w, env, c) ==
    [w EXCEPT !.calls = @ \cup {c}, !.log = Append(@, c),
              !.failed = c \in env.faults]

\* The command c is issued in a state where it cannot succeed.
Refused(w, c) == [w EXCEPT !.calls = @ \cup {c}, !.failed = TRUE]

\* A step of a command is entered.
Call(w, c) == [w EXCEPT !.calls = @ \cup {c}]

\* An error is held; e names the failing command or the reason.
Fail(w, e) == [w EXCEPT !.err = e]

\* The ? operator: the rest of the command runs only while no error is held.
Bind(w, F(_)) == IF w.err # NoErr \/ w.over THEN w ELSE F(w)

\* The command c is issued and its failure propagated; Eff is what it does
\* when it succeeds.
Step(w, env, c, Eff(_)) ==
    LET x == Cmd(w, env, c) IN IF x.failed THEN Fail(x, c) ELSE Eff(x)

\* str::ends_with on piece sequences.
EndsWith(s, suffix) ==
    /\ Len(s) >= Len(suffix)
    /\ SubSeq(s, Len(s) - Len(suffix) + 1, Len(s)) = suffix

\* --------------------------------------------------------- namespace store

is_mounted(w, t) == t \in w.mpExists /\ w.nsMount[t] # 0

MountedSet(w) == {t \in Types : is_mounted(w, t)}

\* status taking three mounted kinds for Ready.
status_ThreeIsReady(w) ==
    LET mounted_set == MountedSet(w) IN
    IF mounted_set = {} THEN [tag |-> "None", set |-> {}]
    ELSE IF Cardinality(mounted_set) >= TypeCount - 1 THEN [tag |-> "Ready", set |-> {}]
    ELSE [tag |-> "Partial", set |-> mounted_set]

status(w) ==
    LET mounted_set == MountedSet(w) IN
    IF mounted_set = {} THEN [tag |-> "None", set |-> {}]
    ELSE IF Cardinality(mounted_set) = TypeCount THEN [tag |-> "Ready", set |-> {}]
    ELSE [tag |-> "Partial", set |-> mounted_set]

\* The processes whose pid namespace is the one bound at the pid mount point.
all_ns_processes(w) ==
    {p \in w.procs : w.nsMount["pid"] # 0 /\ p.pidns = w.nsMount["pid"]}

\* The first match of a scan of /proc, which lists processes by pid.
FirstByPid(S) == CHOOSE p \in S : \A q \in S : p.pid <= q.pid

\* find_process_in_namespace without the test of the network namespace.
find_process_in_namespace_AnyNetns(w, name) ==
    LET found == {p \in w.procs : EndsWith(p.argv0, name)}
    IN IF found = {} THEN 0 ELSE FirstByPid(found).pid

find_process_in_namespace(w, name) ==
    LET pid1_netns == 0
        found == {p \in w.procs : EndsWith(p.argv0, name) /\ p.netns # pid1_netns}
    IN IF found = {} THEN 0 ELSE FirstByPid(found).pid

\* The namespace set a process spawned by `nsenter -a -t pid` joins: that of
\* the target process, or none when no such process is alive.
TargetOf(w, pid) == {p \in w.procs : p.pid = pid}

TargetNs(w, pid) ==
    IF TargetOf(w, pid) = {} THEN 0 ELSE (CHOOSE p \in TargetOf(w, pid) : TRUE).pidns

\* The newest namespace set: etcOverlays, procMnt and nsRoute are its state.
\* A set is created only when no mount point is bound, so an older set is
\* out of reach of every command.
CurNs(w) == w.nextNs - 1

\* The process ids in use, and the smallest free ones.
UsedPids(w) == {p.pid : p \in w.procs}

FreePids(w) == (2..MaxPid) \ UsedPids(w)

FreePid(w) == CHOOSE i \in FreePids(w) : \A j \in FreePids(w) : i <= j

FreePid2(w) ==
    CHOOSE i \in FreePids(w) \ {FreePid(w)} :
        \A j \in FreePids(w) \ {FreePid(w)} : i <= j

FreePid3(w) ==
    CHOOSE i \in FreePids(w) \ {FreePid(w), FreePid2(w)} :
        \A j \in FreePids(w) \ {FreePid(w), FreePid2(w)} : i <= j

\* What `mount` prints inside the mount namespace of set g.
MountQueryOutput(w, g) ==
    IF g # 0 /\ g = CurNs(w) /\ w.etcOverlays > 0
    THEN {"overlay on /etc type overlay"} ELSE {}

\* The stdout wait_with_output collects from a child spawned by
\* spawn_inside_all_namespaces_of_pid: the child's stdout is Stdio::null(),
\* so nothing of what it printed is captured.
spawn_inside_all_namespaces_of_pid(printed) == {}

\* ------------------------------------------------------------------ iptables

Pow2(n) == 2 ^ n

\* iptables keeps a source address masked to its prefix length, both when a
\* rule is appended and when a rule specification is matched for deletion.
MaskAddr(addr, len) == IF len = 0 THEN 0 ELSE addr - (addr % Pow2(32 - len))

IptablesParse(r) == [r EXCEPT !.src = MaskAddr(r.src, r.len)]

MasqRule(addr, iface_name) ==
    [table |-> "nat", chain |-> "POSTROUTING", src |-> addr, len |-> PrefixLen,
     iif |-> <<>>, oif |-> iface_name, target |-> "MASQUERADE"]

ForwardRule(iif, oif) ==
    [table |-> "filter", chain |-> "FORWARD", src |-> 0, len |-> 0,
     iif |-> iif, oif |-> oif, target |-> "ACCEPT"]

\* The three rule specifications as setup_external_forward appends them.
UpRules(iface_name) ==
    <<MasqRule(Addr_10_200_0_2, iface_name),
      ForwardRule(iface_name, <<"veth-warp">>),
      ForwardRule(<<"veth-warp">>, iface_name)>>

\* The three rule specifications as cleanup_external_networking deletes them.
DownRules(iface_name) ==
    <<MasqRule(Addr_10_200_0_0, iface_name),
      ForwardRule(iface_name, <<"veth-warp">>),
      ForwardRule(<<"veth-warp">>, iface_name)>>

\* The firewall table is kept as a bag of entries: the code appends and
\* deletes by specification and never reads the order.
CountRule(rs, r) == CopiesIn(IptablesParse(r), rs)

\* iptables -A
iptables_append(w, r) ==
    IF BagCardinality(w.rules) >= MaxRules THEN [w EXCEPT !.over = TRUE]
    ELSE [w EXCEPT !.rules = @ (+) SetToBag({IptablesParse(r)})]

\* The table without one entry matching r.
RemoveFirst(rs, r) == rs (-) SetToBag({IptablesParse(r)})

\* delete_iptables_rule: iptables -D until it fails, which it does when no
\* entry matches.
\* delete_iptables_rule stopping after its first delete.
delete_iptables_rule_Once(w, r) ==
    IF CountRule(w.rules, r) = 0
    THEN [w EXCEPT !.log = Append(@, "iptables_D_failed")]
    ELSE [w EXCEPT !.rules = RemoveFirst(@, r),
                   !.calls = @ \cup {"iptables_D"},
                   !.log = Append(Append(@, "iptables_D"), "iptables_D_failed")]

RECURSIVE delete_iptables_rule(_, _)
delete_iptables_rule(w, r) ==
    IF CountRule(w.rules, r) = 0
    THEN [w EXCEPT !.log = Append(@, "iptables_D_failed")]
    ELSE delete_iptables_rule(
           [w EXCEPT !.rules = RemoveFirst(@, r),
                     !.calls = @ \cup {"iptables_D"},
                     !.log = Append(@, "iptables_D")], r)

\* ------------------------------------------------------------ network setup

\* str::split(' '): the tokens between the spaces, empty ones included; the
\* empty text gives one empty token.
RECURSIVE Split(_)
Split(s) ==
    LET spaces == {i \in 1..Len(s) : s[i] = " "}
        k == CHOOSE i \in spaces : \A j \in spaces : i <= j
    IN IF spaces = {} THEN <<s>>
       ELSE <<SubSeq(s, 1, k - 1)>> \o Split(SubSeq(s, k + 1, Len(s)))

\* parts.iter().position(|&e| e == "dev"), counted from 1; 0 stands for None.
PosDev(parts) ==
    LET hits == {i \in 1..Len(parts) : parts[i] = <<"dev">>}
    IN IF hits = {} THEN 0 ELSE CHOOSE i \in hits : \A j \in hits : i <= j

\* parse_iface_name without the test of the first token.
parse_iface_name_AnyFirst(ip_route_default_stdout) ==
    LET parts == Split(ip_route_default_stdout)
        pos_dev == PosDev(parts)
    IN IF pos_dev = 0 \/ Len(parts) <= pos_dev
       THEN [ok |-> FALSE, name |-> <<>>]
       ELSE [ok |-> TRUE, name |-> parts[pos_dev + 1]]

\* parse_iface_name: ok says whether it returns Ok, name is the interface.
parse_iface_name(ip_route_default_stdout) ==
    LET parts == Split(ip_route_default_stdout)
        pos_dev == PosDev(parts)
    IN IF Len(parts) = 0 THEN [ok |-> FALSE, name |-> <<>>]
       ELSE IF parts[1] # <<"default">> \/ pos_dev = 0 \/ Len(parts) <= pos_dev
            THEN [ok |-> FALSE, name |-> <<>>]
            ELSE [ok |-> TRUE, name |-> parts[pos_dev + 1]]

\* default_route_iface_name after `ip route show default` ran.
default_route_iface_name == parse_iface_name(HostRouteOutput)

NetNs(w) == w.nsMount["net"]

\* container_has_default_route never seeing the route.
container_has_default_route_Never(w) == FALSE

container_has_default_route(w) == NetNs(w) = CurNs(w) /\ w.nsRoute

setup_private_networking(w, env) ==
    IF w.hostVeth # "absent" THEN w
    ELSE
    LET add(x) == [x EXCEPT !.hostVeth = "down",
                            !.nsVeth = [ns |-> NetNs(x), st |-> "down"]]
        addr(x) == [x EXCEPT !.hostVeth = "addr"]
        lup(x) == [x EXCEPT !.hostVeth = "up"]
        nsaddr(x) == [x EXCEPT !.nsVeth.st = "addr"]
        nsup(x) == [x EXCEPT !.nsVeth.st = "up"]
        s1(x) == Step(x, env, "ip_addr_add", addr)
        s2(x) == Step(x, env, "ip_link_up", lup)
        s3(x) == Step(x, env, "ns_addr_add", nsaddr)
        s4(x) == Step(x, env, "ns_link_up", nsup)
    IN Bind(Bind(Bind(Bind(Step(w, env, "ip_link_add", add), s1), s2), s3), s4)

\* ip route add default via 10.200.0.1 dev veth-warp-ns, inside the network
\* namespace: the kernel accepts it when veth-warp-ns is there, addressed and up.
RouteAddOk(w) == w.nsVeth.ns = NetNs(w) /\ w.nsVeth.st = "up"

setup_external_forward(w, env, iface_name) ==
    LET rs == UpRules(iface_name)
        e1(x) == iptables_append(x, rs[1])
        e2(x) == iptables_append(x, rs[2])
        e3(x) == iptables_append(x, rs[3])
        er(x) == [x EXCEPT !.nsRoute = TRUE]
        a2(x) == Step(x, env, "iptables_A_fwd_in", e2)
        a3(x) == Step(x, env, "iptables_A_fwd_out", e3)
        rt(x) == IF RouteAddOk(x) THEN Step(x, env, "ns_route_add", er)
                 ELSE Fail(Refused(x, "ns_route_add"), "ns_route_add")
    IN Bind(Bind(Bind(Step(w, env, "iptables_A_masq", e1), a2), a3), rt)

setup_external_networking(w, env) ==
    LET fw(x) == IF ~default_route_iface_name.ok THEN Fail(x, "parse_iface_name")
                 ELSE setup_external_forward(x, env, default_route_iface_name.name)
        hr(x) == IF container_has_default_route(x) THEN x
                 ELSE Step(x, env, "host_route_show", fw)
    IN Step(w, env, "ns_route_show", hr)

\* ------------------------------------------------------------------------ up

find_pid_ns_init_process(w) ==
    LET found == {p \in all_ns_processes(w) : Len(p.argv0) > 0 /\ p.argv0 = Tini}
    IN IF found = {} THEN 0 ELSE FirstByPid(found).pid

base_dir_has_private_self_bind_mount(w) == w.baseBind > 0

\* private_self_bind_mount_base_dir returning the error without the rollback.
private_self_bind_mount_base_dir_NoRollback(w, env) ==
    LET bound(x) == [x EXCEPT !.baseBind = @ + 1, !.basePrivate = FALSE]
        private(x) == [x EXCEPT !.basePrivate = TRUE]
        mp(x) == Step(x, env, "mount_private", private)
    IN Bind(Step(w, env, "mount_bind", bound), mp)

private_self_bind_mount_base_dir(w, env) ==
    LET bound(x) == [x EXCEPT !.baseBind = @ + 1, !.basePrivate = FALSE]
        private(x) == [x EXCEPT !.basePrivate = TRUE]
        \* let _ = umount(base_dir): the rollback, its result dropped
        rollback(x) ==
            LET y == Cmd(x, env, "umount_rollback")
            IN IF y.failed THEN y ELSE [y EXCEPT !.baseBind = @ - 1]
        mp(x) ==
            LET y == Cmd(x, env, "mount_private")
            IN IF y.failed THEN Fail(rollback(y), "mount_private") ELSE private(y)
    IN Bind(Step(w, env, "mount_bind", bound), mp)

\* The first n mount points of the helper's bind order, bound to set g.
BindFirst(w, n, g) ==
    [w EXCEPT !.nsMount =
        [t \in Types |-> IF \E i \in 1..n : BindOrder[i] = t THEN g ELSE @[t]]]

HelperProc(w, g) ==
    [pid |-> FreePid(w), argv0 |-> Unshare, pidns |-> 0, netns |-> g, ppid |-> 0]

InitProc(w, g) ==
    [pid |-> FreePid2(w), argv0 |-> Tini, pidns |-> g, netns |-> g,
     ppid |-> FreePid(w)]

\* The helper and the init process it forked are running in set g, whose
\* /proc the helper mounted (--mount-proc).
WithInit(w, g) ==
    [w EXCEPT !.procs = @ \cup {HelperProc(w, g), InitProc(w, g)},
              !.procMnt = TRUE]

\* unshare_children[0] when the loop breaks: the one child the helper shows,
\* its setup child when the poll is early, the init process otherwise; 0 when
\* the loop does not break with a child.
PolledChild(w, poll) ==
    CASE poll.res = "early" -> FreePid3(w)
      [] poll.res = "child" -> FreePid2(w)
      [] OTHER -> 0

\* The wait loop breaking with the first of several children.
PollUnshare_FirstChild(w, poll) ==
    IF w.nextNs > MaxNs \/ Cardinality(FreePids(w)) < 3
    THEN [w EXCEPT !.over = TRUE]
    ELSE [WithInit([BindFirst(w, TypeCount, w.nextNs) EXCEPT
                      !.nextNs = @ + 1, !.etcOverlays = 0, !.nsRoute = FALSE],
                   w.nextNs)
            EXCEPT !.init = FreePid2(w), !.seen = Types]

\* The wait loop taking the first child handle it can when the second is up.
PollUnshare_TimeoutGoesOn(w, poll) ==
    IF w.nextNs > MaxNs \/ Cardinality(FreePids(w)) < 2
    THEN [w EXCEPT !.over = TRUE]
    ELSE [WithInit(BindFirst(w, poll.n, w.nextNs), w.nextNs) EXCEPT
            !.nextNs = @ + 1, !.init = FreePid2(w)]

\* The helper was spawned; poll is what the wait loop then observes.
PollUnshare(w, poll) ==
    IF w.nextNs > MaxNs \/ Cardinality(FreePids(w)) < 2
    THEN [w EXCEPT !.over = TRUE]
    ELSE
    LET g == w.nextNs
        \* a new set has nothing on /etc, no default route, no veth endpoint
        w2 == IF poll.n > 0
              THEN [BindFirst(w, poll.n, g) EXCEPT
                      !.nextNs = g + 1, !.etcOverlays = 0, !.procMnt = FALSE,
                      !.nsRoute = FALSE]
              ELSE w
    IN CASE poll.res = "exited" -> Fail(w2, "unshare exited")
         [] poll.res = "tasks" -> Fail(WithInit(w2, g), "unshare tasks")
         [] poll.res = "children" -> Fail(WithInit(w2, g), "unshare children")
         [] poll.res = "timeout" -> Fail(w2, "timeout")
         [] poll.res = "child" /\ ~poll.alive ->
              Fail([w2 EXCEPT !.procMnt = TRUE], "init died")
         [] poll.res = "early" ->
              IF Cardinality(FreePids(w)) < 3 THEN [w EXCEPT !.over = TRUE]
              ELSE [WithInit([BindFirst(w, TypeCount, g) EXCEPT
                                !.nextNs = g + 1, !.etcOverlays = 0,
                                !.nsRoute = FALSE], g)
                      EXCEPT !.init = PolledChild(w, poll), !.seen = MountedSet(w2)]
         [] OTHER -> [WithInit(w2, g) EXCEPT !.init = PolledChild(w, poll),
                                             !.seen = MountedSet(w2)]

create_namespaces(w, env) ==
    LET created(x) == [x EXCEPT !.mpExists = Types]
        polled(x) == PollUnshare(x, env.poll)
        files(x) == IF Types \ x.mpExists = {} THEN x
                    ELSE Step(x, env, "create_mount_point", created)
        unshare(x) == Step(x, env, "spawn_unshare", polled)
    IN Bind(files(Call(w, "create_namespaces")), unshare)

create_etc_overlay_inside(w, env, ns_init_pid) ==
    LET g == TargetNs(w, ns_init_pid)
        mount_out == spawn_inside_all_namespaces_of_pid(MountQueryOutput(w, g))
        dirs(x) == x
        written(x) == [x EXCEPT !.confWritten = TRUE]
        \* .wait()?: the exit status of mount is read and dropped
        waited(x) ==
            LET y == IF g = CurNs(x) THEN Cmd(x, env, "mount_overlay")
                     ELSE Refused(x, "mount_overlay")
            IN IF y.failed THEN Call(y, "mount_overlay_failed")
               ELSE IF y.etcOverlays >= MaxOverlays THEN [y EXCEPT !.over = TRUE]
               ELSE [y EXCEPT !.etcOverlays = @ + 1]
        mk(x) == Step(x, env, "mkdir_overlay", dirs)
        wr(x) == Step(x, env, "write_conf", written)
        mo(x) == Step(x, env, "spawn_mount_overlay", waited)
        query(x) == IF "overlay on /etc type overlay" \in mount_out THEN x
                    ELSE Bind(Bind(mk(x), wr), mo)
    IN Step(w, env, "spawn_mount_query", query)

\* The name of a spawn as a command.
SpawnTag(name) == IF name = WarpSvc THEN "spawn_warp_svc" ELSE "spawn_danted"

\* spawn_process_inside without the scan for a running process.
spawn_process_inside_Always(w, env, name, ns_pid) ==
    LET spawned(x) ==
            IF TargetNs(x, ns_pid) = 0 THEN Call(x, "spawn_failed")
            ELSE IF FreePids(x) = {} THEN [x EXCEPT !.over = TRUE]
            ELSE [x EXCEPT
                    !.procs = @ \cup {[pid |-> FreePid(x), argv0 |-> name,
                                       pidns |-> TargetNs(x, ns_pid),
                                       netns |-> TargetNs(x, ns_pid), ppid |-> 0]}]
    IN Step(w, env, SpawnTag(name), spawned)

spawn_process_inside(w, env, name, ns_pid) ==
    LET spawned(x) ==
            IF TargetNs(x, ns_pid) = 0 THEN Call(x, "spawn_failed")
            ELSE IF FreePids(x) = {} THEN [x EXCEPT !.over = TRUE]
            ELSE [x EXCEPT
                    !.procs = @ \cup {[pid |-> FreePid(x), argv0 |-> name,
                                       pidns |-> TargetNs(x, ns_pid),
                                       netns |-> TargetNs(x, ns_pid), ppid |-> 0]}]
    IN IF \E p \in w.procs : Len(p.argv0) > 0 /\ EndsWith(p.argv0, name) THEN w
       ELSE Step(w, env, SpawnTag(name), spawned)

\* The match on status creating namespaces although the status is Ready.
ObtainInit_Recreate(w, env) ==
    CASE status(w).tag = "Partial" -> Fail(Call(w, "status"), "partially mounted")
      [] OTHER -> create_namespaces(Call(w, "status"), env)

\* The match on status creating namespaces although the status is Partial.
ObtainInit_Heal(w, env) ==
    CASE status(w).tag = "Ready" ->
           IF find_pid_ns_init_process(w) # 0
           THEN [Call(w, "status") EXCEPT !.init = find_pid_ns_init_process(w)]
           ELSE Fail(Call(w, "status"), "init process is dead")
      [] OTHER -> create_namespaces(Call(w, "status"), env)

\* The match on status going on although no init process was found.
ObtainInit_NoDeadCheck(w, env) ==
    CASE status(w).tag = "Ready" ->
           [Call(w, "status") EXCEPT !.init = find_pid_ns_init_process(w)]
      [] status(w).tag = "Partial" -> Fail(Call(w, "status"), "partially mounted")
      [] OTHER -> create_namespaces(Call(w, "status"), env)

\* The match on status of up, giving the init process handle.
ObtainInit(w, env) ==
    CASE status(w).tag = "Ready" ->
           IF find_pid_ns_init_process(w) # 0
           THEN [Call(w, "status") EXCEPT !.init = find_pid_ns_init_process(w)]
           ELSE Fail(Call(w, "status"), "init process is dead")
      [] status(w).tag = "Partial" -> Fail(Call(w, "status"), "partially mounted")
      [] OTHER -> create_namespaces(Call(w, "status"), env)

\* up going on without the self bind mount of the base directory.
up_NoBind(w, env) ==
    LET made(x) == [x EXCEPT !.baseExists = TRUE]
        mk(x) == IF x.baseExists THEN x ELSE Step(x, env, "mkdir_base", made)
        ns(x) == ObtainInit(x, env)
        ov(x) == create_etc_overlay_inside(Call(x, "create_etc_overlay_inside"),
                                           env, x.init)
        pn(x) == setup_private_networking(Call(x, "setup_private_networking"), env)
        en(x) == setup_external_networking(Call(x, "setup_external_networking"), env)
        sw(x) == spawn_process_inside(Call(x, "spawn_process_inside"), env, WarpSvc,
                                      x.init)
        sd(x) == spawn_process_inside(x, env, DantedPath, x.init)
    IN Bind(Bind(Bind(Bind(Bind(Bind(mk(w), ns), ov), pn), en), sw), sd)

up(w, env) ==
    LET made(x) == [x EXCEPT !.baseExists = TRUE]
        mk(x) == IF x.baseExists THEN x ELSE Step(x, env, "mkdir_base", made)
        bm(x) == IF base_dir_has_private_self_bind_mount(x) THEN x
                 ELSE private_self_bind_mount_base_dir(x, env)
        ns(x) == ObtainInit(x, env)
        ov(x) == create_etc_overlay_inside(Call(x, "create_etc_overlay_inside"),
                                           env, x.init)
        pn(x) == setup_private_networking(Call(x, "setup_private_networking"), env)
        en(x) == setup_external_networking(Call(x, "setup_external_networking"), env)
        sw(x) == spawn_process_inside(Call(x, "spawn_process_inside"), env, WarpSvc,
                                      x.init)
        sd(x) == spawn_process_inside(x, env, DantedPath, x.init)
    IN Bind(Bind(Bind(Bind(Bind(Bind(Bind(mk(w), bm), ns), ov), pn), en), sw), sd)

\* ---------------------------------------------------------------------- down

\* The name of a kill as a command.
KillTag(name) ==
    IF name = WarpSvc THEN "kill_warp_svc"
    ELSE IF name = Danted THEN "kill_danted" ELSE "kill_io_child"

\* SIGTERM ends the process it is delivered to.
kill_process(w, env, name) ==
    LET pid == find_process_in_namespace(w, name)
        killed(x) == [x EXCEPT !.procs = {p \in @ : p.pid # pid}]
    IN IF pid = 0 THEN w ELSE Step(w, env, KillTag(name), killed)

\* The network namespace a command run by run_inside_namespace(base_dir,
\* ns_type, ..) is in: nsenter enters the one namespace named, so the command
\* is in the set's network namespace only for Type::Net, and in the host's
\* (0) otherwise.
run_inside_namespace_netns(w, ns_type) == IF ns_type = "net" THEN NetNs(w) ELSE 0

\* let _ = ..: the command is run and its result dropped; able says whether
\* the state lets it succeed.
Dropped(w, env, c, able, Eff(_)) ==
    LET x == IF able THEN Cmd(w, env, c) ELSE Refused(w, c)
    IN IF x.failed THEN x ELSE Eff(x)

clean_mount_namespace(w, env) ==
    LET g == w.nsMount["mount"]
        proc(x) == [x EXCEPT !.procMnt = FALSE]
        etc(x) == [x EXCEPT !.etcOverlays = @ - 1]
        w1 == Dropped(w, env, "umount_proc", g = CurNs(w) /\ w.procMnt, proc)
    IN Dropped(w1, env, "umount_etc", g = CurNs(w1) /\ w1.etcOverlays > 0, etc)

\* cleanup_external_networking leaving the last of the three rules in place.
cleanup_external_networking_TwoRules(w, env) ==
    LET rs == DownRules(default_route_iface_name.name)
        del(x) == delete_iptables_rule(delete_iptables_rule(x, rs[1]), rs[2])
    IN Step(w, env, "host_route_show", del)

cleanup_external_networking(w, env) ==
    LET rs == DownRules(default_route_iface_name.name)
        del(x) == IF ~default_route_iface_name.ok THEN Fail(x, "parse_iface_name")
                  ELSE delete_iptables_rule(
                         delete_iptables_rule(
                           delete_iptables_rule(x, rs[1]), rs[2]), rs[3])
    IN Step(w, env, "host_route_show", del)

\* Deleting one end of a veth pair deletes the other, and with veth-warp-ns
\* the default route through it.
DeletePair(w) ==
    [w EXCEPT !.hostVeth = "absent",
              !.nsVeth = [ns |-> 0, st |-> "down"],
              !.nsRoute = IF w.nsVeth.ns = CurNs(w) THEN FALSE ELSE @]

cleanup_private_networking(w, env) ==
    LET w1 == IF is_mounted(w, "net")
              THEN Dropped(w, env, "ns_link_delete",
                           w.nsVeth.ns # 0
                             /\ w.nsVeth.ns = run_inside_namespace_netns(w, "mount"),
                           DeletePair)
              ELSE w
    IN IF w1.hostVeth = "absent" THEN w1
       ELSE Step(w1, env, "ip_link_delete", DeletePair)

\* What is inside a namespace whose mount point is unbound is out of the
\* program's reach: the next set starts anew.
Unreached(w) ==
    [w EXCEPT !.etcOverlays = IF w.nsMount["mount"] = 0 THEN 0 ELSE @,
              !.procMnt = IF w.nsMount["mount"] = 0 THEN FALSE ELSE @,
              !.nsRoute = IF w.nsMount["net"] = 0 THEN FALSE ELSE @]

UmountTag(t) ==
    CASE t = "user" -> "umount_user" [] t = "pid" -> "umount_pid"
      [] t = "mount" -> "umount_mount" [] OTHER -> "umount_net"

unmount_one_namespace(w, env, ns_type) ==
    LET gone(x) == Unreached([x EXCEPT !.nsMount[ns_type] = 0])
    IN Step(w, env, UmountTag(ns_type), gone)

RECURSIVE UnmountFrom(_, _, _)
UnmountFrom(w, env, i) ==
    IF i > TypeCount \/ w.err # NoErr THEN w
    ELSE UnmountFrom(IF is_mounted(w, TypeOrder[i])
                     THEN unmount_one_namespace(w, env, TypeOrder[i])
                     ELSE w,
                     env, i + 1)

\* unmount_namespaces without the is_mounted test.
unmount_namespaces_All(w, env) ==
    LET u1(x) == unmount_one_namespace(x, env, TypeOrder[2])
        u2(x) == unmount_one_namespace(x, env, TypeOrder[3])
        u3(x) == unmount_one_namespace(x, env, TypeOrder[4])
    IN Bind(Bind(Bind(unmount_one_namespace(w, env, TypeOrder[1]), u1), u2), u3)

\* unmount_namespaces looking at the last kind only.
unmount_namespaces_LastOnly(w, env) == UnmountFrom(w, env, TypeCount)

unmount_namespaces(w, env) == UnmountFrom(w, env, 1)

\* let _ = umount(base_dir): the kernel refuses it when nothing is mounted
\* there or when a namespace mount point below is still mounted.
UmountBase(w, env) ==
    LET gone(x) == [x EXCEPT !.baseBind = @ - 1,
                             !.basePrivate = IF x.baseBind = 1 THEN FALSE ELSE @]
    IN Dropped(w, env, "umount_base", w.baseBind > 0 /\ MountedSet(w) = {}, gone)

down(w, env) ==
    LET k1(x) == kill_process(x, env, WarpSvc)
        k2(x) == kill_process(x, env, Danted)
        k3(x) == kill_process(x, env, DantedIoChild)
        cm(x) == IF is_mounted(x, "mount") THEN clean_mount_namespace(x, env) ELSE x
        ce(x) == IF is_mounted(x, "net") THEN cleanup_external_networking(x, env) ELSE x
        cp(x) == cleanup_private_networking(x, env)
        un(x) == unmount_namespaces(x, env)
        ub(x) == UmountBase(x, env)
    IN Bind(Bind(Bind(Bind(Bind(Bind(Bind(k1(w), k2), k3), cm), ce), cp), un), ub)

\* --------------------------------------------------------------- environment

\* The failures of commands that change one run: a command that is never
\* issued cannot fail, so the sets are grown one failure at a time from the
\* run without failures, each new failure being of a command that the run so
\* far issues after its k-th. A failure that aborts the run ends the growth;
\* a failure whose result the code drops lets it go on.
RECURSIVE UpFaults(_, _, _)
UpFaults(w, F, k) ==
    LET log == up(w, [faults |-> F, poll |-> NormalPoll]).log
    IN {F} \cup UNION {UpFaults(w, F \cup {log[i]}, i) :
                         i \in {j \in (k + 1)..Len(log) : log[j] \in UpFaultPoints}}

RECURSIVE DownFaults(_, _, _)
DownFaults(w, F, k) ==
    LET log == down(w, [faults |-> F]).log
    IN {F} \cup UNION {DownFaults(w, F \cup {log[i]}, i) :
                         i \in {j \in (k + 1)..Len(log) : log[j] \in DownFaultPoints}}

\* What the environment does to one run of up: command failures with the
\* normal outcome of the wait loop, or another outcome of the wait loop when
\* the run reaches it.
UpEnvs(w) ==
    [faults : UpFaults(w, {}, 0), poll : {NormalPoll}]
      \cup IF "spawn_unshare" \in up(w, [faults |-> {}, poll |-> NormalPoll]).calls
           THEN [faults : {{}}, poll : PollOutcomes \ {NormalPoll}]
           ELSE {}

DownEnvs(w) == [faults : DownFaults(w, {}, 0)]

\* ------------------------------------------------------------------- actions

\* The host is clean: no namespace kind mounted, no veth endpoint, an empty
\* firewall table.
Clean(w) ==
    /\ status(w).tag = "None"
    /\ w.hostVeth = "absent"
    /\ w.nsVeth.ns = 0
    /\ w.rules = EmptyBag

HasProc(w, name) == \E p \in w.procs : Len(p.argv0) > 0 /\ EndsWith(p.argv0, name)

\* No process that down looks for is running outside the host's network
\* namespace.
NoSupervised(w) ==
    \A name \in {WarpSvc, Danted, DantedIoChild} : find_process_in_namespace(w, name) = 0

\* What a command found when it started: a clean host, without ("idle") or
\* with supervised processes, or else the status.
Found(w) ==
    IF Clean(w) THEN (IF NoSupervised(w) THEN "idle" ELSE "clean") ELSE status(w).tag

\* The record of the last command: what it was, whether it returned Ok,
\* whether it failed on the timeout of the namespace-creation wait loop, the
\* init process handle it held, what it found, and whether the command right
\* before it, with nothing in between, was an up that returned Ok (then prev
\* says whether that one started on a clean host, and prevInit is its init
\* process handle).
Outcome(op, r, w) ==
    [op |-> op, ok |-> r.err = NoErr, timeout |-> r.err = "timeout",
     init |-> r.init, found |-> Found(w),
     prev |-> IF last.op = "up" /\ last.ok
              THEN (IF last.found \in {"idle", "clean"} THEN "up_clean" ELSE "up")
              ELSE "none",
     prevInit |-> IF last.op = "up" /\ last.ok THEN last.init ELSE 0]

\* The record after the environment moved.
EnvOutcome ==
    [op |-> "env", ok |-> FALSE, timeout |-> FALSE, init |-> 0, found |-> "None",
     prev |-> "none",
     prevInit |-> 0]

Install(r) ==
    /\ baseExists' = r.baseExists
    /\ baseBind' = r.baseBind
    /\ basePrivate' = r.basePrivate
    /\ mpExists' = r.mpExists
    /\ nsMount' = r.nsMount
    /\ procs' = r.procs
    /\ nextNs' = r.nextNs
    /\ etcOverlays' = r.etcOverlays
    /\ procMnt' = r.procMnt
    /\ confWritten' = r.confWritten
    /\ hostVeth' = r.hostVeth
    /\ nsVeth' = r.nsVeth
    /\ nsRoute' = r.nsRoute
    /\ rules' = r.rules

\* The host before the first command.
HostInit ==
    /\ baseExists = FALSE
    /\ baseBind = 0
    /\ basePrivate = FALSE
    /\ mpExists = {}
    /\ nsMount = [t \in Types |-> 0]
    /\ procs = {}
    /\ nextNs = 1
    /\ etcOverlays = 0
    /\ procMnt = FALSE
    /\ confWritten = FALSE
    /\ hostVeth = "absent"
    /\ nsVeth = [ns |-> 0, st |-> "down"]
    /\ nsRoute = FALSE
    /\ rules = EmptyBag
    /\ last = [EnvOutcome EXCEPT !.op = "init"]

\* No function is called on its own.
NoFn == [fn |-> "none"]

Init == HostInit /\ fnIn = NoFn /\ fnOut = NoFn

\* One run of `bubblewarp up`.
Up ==
    \E env \in UpEnvs(World) :
        LET r == up(World, env) IN
        /\ ~r.over
        /\ Install(r)
        /\ last' = Outcome("up", r, World)
        /\ UNCHANGED <<fnIn, fnOut>>

\* One run of `bubblewarp down`.
Down ==
    \E env \in DownEnvs(World) :
        LET r == down(World, env) IN
        /\ ~r.over
        /\ Install(r)
        /\ last' = Outcome("down", r, World)
        /\ UNCHANGED <<fnIn, fnOut>>

\* A process exits on its own. With the init process of a pid namespace the
\* kernel ends every process of that namespace, and the unshare helper, which
\* waits for the init process, exits too.
ProcessExit ==
    \E p \in procs :
        /\ p.pidns # 0 /\ p.pidns = nsMount["pid"]
        /\ p.argv0 \in {Tini, WarpSvc, DantedPath}
        /\ procs' = IF p.argv0 = Tini
                    THEN {q \in procs : q.pidns # p.pidns /\ q.pid # p.ppid}
                    ELSE procs \ {p}
        /\ last' = EnvOutcome
        /\ UNCHANGED <<baseExists, baseBind, basePrivate, mpExists, nsMount, nextNs,
                       etcOverlays, procMnt, confWritten, hostVeth, nsVeth,
                       nsRoute, rules, fnIn, fnOut>>

\* The SOCKS proxy forks its io worker, whose title is cut to the length of
\* the proxy's own command line.
DantedFork ==
    \E p \in procs :
        /\ p.argv0 = DantedPath
        /\ ~\E q \in procs : q.argv0 = DantedIoChild
        /\ FreePids(World) # {}
        /\ procs' = procs \cup {[pid |-> FreePid(World), argv0 |-> DantedIoChild,
                                 pidns |-> p.pidns, netns |-> p.netns,
                                 ppid |-> p.pid]}
        /\ last' = EnvOutcome
        /\ UNCHANGED <<baseExists, baseBind, basePrivate, mpExists, nsMount, nextNs,
                       etcOverlays, procMnt, confWritten, hostVeth, nsVeth,
                       nsRoute, rules, fnIn, fnOut>>

Next == Up \/ Down \/ ProcessExit \/ DantedFork

Spec == Init /\ [][Next]_vars

\* Runs of up only, with the processes moving in between: no down.
UpNext == Up \/ ProcessExit \/ DantedFork

UpOnlySpec == Init /\ [][UpNext]_vars

\* ------------------------------------------------ functions on their own

\* status, parse_iface_name and the rule deletion of down, each called on
\* inputs of its own: any set of mounted kinds, any text of up to MaxOut
\* pieces, any number of copies of the three rules in the firewall table.
Pieces == {" ", "default", "dev", "eth0"}

RECURSIVE TextsUpTo(_)
TextsUpTo(n) ==
    IF n = 0 THEN {<<>>}
    ELSE TextsUpTo(n - 1)
           \cup {Append(t, p) : t \in {u \in TextsUpTo(n - 1) : Len(u) = n - 1},
                                p \in Pieces}

\* The firewall table holding copies[i] entries as up's i-th rule is stored.
TableOf(copies) ==
    LET rs == UpRules(HostIface)
        held == {i \in 1..3 : copies[i] > 0}
    IN [e \in {IptablesParse(rs[i]) : i \in held} |->
          copies[CHOOSE i \in held : IptablesParse(rs[i]) = e]]

\* The process tables with pids 2..MaxFindPid, each process an init process,
\* a VPN client, a SOCKS proxy or its io worker, in the host's network
\* namespace (0) or in that of a namespace set (1).
ProcTables ==
    {{[pid |-> i, argv0 |-> f[i].argv0, pidns |-> f[i].netns,
       netns |-> f[i].netns, ppid |-> 0] : i \in 2..MaxFindPid} :
        f \in [2..MaxFindPid ->
                 [argv0 : {Tini, WarpSvc, DantedPath, DantedIoChild}, netns : 0..1]]}

FnInputs ==
    [fn : {"status"}, mounted : SUBSET Types]
    \cup [fn : {"find"}, name : {WarpSvc, Danted, DantedIoChild}, table : ProcTables]
    \cup [fn : {"parse"}, out : TextsUpTo(MaxOut)]
    \cup [fn : {"delete"},
          copies : {c \in [1..3 -> 0..MaxRules] : c[1] + c[2] + c[3] <= MaxRules}]

\* The host with exactly the kinds of S mounted.
Mounted(S) ==
    [World EXCEPT !.mpExists = Types,
                  !.nsMount = [t \in Types |-> IF t \in S THEN 1 ELSE 0]]

NoFaults == [faults |-> {}, poll |-> NormalPoll]

FnInit == HostInit /\ fnIn \in FnInputs /\ fnOut = NoFn

\* status(base_dir) is called; was is the result of the call before.
CallStatus ==
    /\ fnIn.fn = "status"
    /\ fnOut' = [fn |-> "status", mounted |-> fnIn.mounted,
                 res |-> status(Mounted(fnIn.mounted)),
                 was |-> IF fnOut.fn = "status" THEN fnOut.res.tag ELSE "none"]
    /\ UNCHANGED <<baseExists, baseBind, basePrivate, mpExists, nsMount, procs,
                   nextNs, etcOverlays, procMnt, confWritten, hostVeth, nsVeth,
                   nsRoute, rules, last, fnIn>>

\* One kind is mounted or unmounted between two calls of status.
MountChange ==
    \E t \in Types :
        /\ fnIn.fn = "status" /\ fnOut.fn = "status"
        /\ fnIn' = [fnIn EXCEPT !.mounted = IF t \in @ THEN @ \ {t} ELSE @ \cup {t}]
        /\ UNCHANGED <<baseExists, baseBind, basePrivate, mpExists, nsMount, procs,
                       nextNs, etcOverlays, procMnt, confWritten, hostVeth, nsVeth,
                       nsRoute, rules, last, fnOut>>

\* parse_iface_name is called on the text.
CallParse ==
    /\ fnIn.fn = "parse" /\ fnOut = NoFn
    /\ fnOut' = [fn |-> "parse", res |-> parse_iface_name(fnIn.out)]
    /\ UNCHANGED <<baseExists, baseBind, basePrivate, mpExists, nsMount, procs,
                   nextNs, etcOverlays, procMnt, confWritten, hostVeth, nsVeth,
                   nsRoute, rules, last, fnIn>>

\* The delete commands of a run, in order.
Deletes(log) == SelectSeq(log, LAMBDA c : c \in {"iptables_D", "iptables_D_failed"})

\* cleanup_external_networking is called on the table, every command doing
\* what the table makes it do.
CallDelete ==
    /\ fnIn.fn = "delete" /\ fnOut = NoFn
    /\ LET r == cleanup_external_networking(
                   [World EXCEPT !.rules = TableOf(fnIn.copies)], NoFaults)
       IN fnOut' = [fn |-> "delete", ok |-> r.err = NoErr, left |-> r.rules,
                    deletes |-> Deletes(r.log)]
    /\ UNCHANGED <<baseExists, baseBind, basePrivate, mpExists, nsMount, procs,
                   nextNs, etcOverlays, procMnt, confWritten, hostVeth, nsVeth,
                   nsRoute, rules, last, fnIn>>

\* find_process_in_namespace is called on the process table, and down is run
\* on it, every command succeeding; killed are the processes down ended.
CallFind ==
    /\ fnIn.fn = "find" /\ fnOut = NoFn
    /\ LET w == [World EXCEPT !.procs = fnIn.table]
       IN fnOut' = [fn |-> "find",
                    pid |-> find_process_in_namespace(w, fnIn.name),
                    killed |-> fnIn.table \ down(w, NoFaults).procs]
    /\ UNCHANGED <<baseExists, baseBind, basePrivate, mpExists, nsMount, procs,
                   nextNs, etcOverlays, procMnt, confWritten, hostVeth, nsVeth,
                   nsRoute, rules, last, fnIn>>

FnNext == CallStatus \/ MountChange \/ CallParse \/ CallDelete \/ CallFind

FnSpec == FnInit /\ [][FnNext]_vars

\* ---------------------------------------------------------------- properties

\* Every way one run of up, and of down, can go from the current state.
UpRuns == {up(World, env) : env \in UpEnvs(World)}

DownRuns == {down(World, env) : env \in DownEnvs(World)}

\* C1: starting from a clean host, a successful up followed by a down that
\* returns Ok ends with status None, with no veth endpoint and with none of
\* the three rules in the firewall table.
C1_RoundTrip ==
    (last.op = "down" /\ last.ok /\ last.prev = "up_clean") => Clean(World)

C1_Witness ==
    /\ last.op = "down" /\ last.ok /\ last.prev = "up_clean"
    /\ status(World).tag = "None" /\ hostVeth = "absent" /\ rules = EmptyBag

\* A process of the pid namespace bound at the pid mount point whose command
\* line begins with tini is running.
InitAlive(w) ==
    \E p \in w.procs :
        /\ w.nsMount["pid"] # 0 /\ p.pidns = w.nsMount["pid"]
        /\ Len(p.argv0) > 0 /\ p.argv0[1] = "tini"

CreationCalls == {"create_namespaces", "create_mount_point", "spawn_unshare"}

\* The process pid is a tini of the pid namespace bound at the pid mount point.
IsInit(w, pid) ==
    \E p \in w.procs :
        /\ p.pid = pid /\ w.nsMount["pid"] # 0 /\ p.pidns = w.nsMount["pid"]
        /\ Len(p.argv0) > 0 /\ p.argv0[1] = "tini"

\* C2: right after an up that returned Ok, the status is Ready with a live
\* init process, and another up never calls create_namespaces (no helper is
\* spawned, no mount point is bound again) and holds the init process, which
\* is the one of the first run when the first run held the init process.
C2_NamespacesReused ==
    (last.op = "up" /\ last.ok) =>
        /\ status(World).tag = "Ready"
        /\ InitAlive(World)
        /\ \A r \in UpRuns :
              /\ r.calls \cap CreationCalls = {}
              /\ r.nsMount = nsMount
              /\ "status" \in r.calls /\ IsInit(World, r.init)
              /\ IsInit(World, last.init) => r.init = last.init

C2_Witness ==
    /\ last.op = "up" /\ last.ok /\ last.prev # "none"
    /\ last.init # 0 /\ last.init = last.prevInit
    /\ \A t \in Types : nsMount[t] = 1

NetworkCreationCalls ==
    {"ip_link_add", "iptables_A_masq", "iptables_A_fwd_in", "iptables_A_fwd_out"}

\* One veth pair, its peer in the network namespace, and one copy of each of
\* the three rules.
OneOfEach(w) ==
    /\ w.hostVeth # "absent" /\ w.nsVeth.ns # 0 /\ w.nsVeth.ns = NetNs(w)
    /\ \A i \in 1..3 : CountRule(w.rules, UpRules(HostIface)[i]) = 1

Instances(w, name) == Cardinality({p \in w.procs : p.argv0 = name})

\* C4: up spawns a supervised process only when no process has an
\* argument-zero ending in its name, and at most one warp-svc and one danted
\* spawned by up are running at any time.
C4_NoDuplicateProcesses ==
    /\ Instances(World, WarpSvc) <= 1
    /\ Instances(World, DantedPath) <= 1
    /\ \A r \in UpRuns : \A name \in {WarpSvc, DantedPath} :
          SpawnTag(name) \in r.calls => ~HasProc(World, name)

C4_Witness ==
    /\ last.op = "up" /\ last.ok /\ last.prev # "none"
    /\ Instances(World, WarpSvc) = 1
    /\ Instances(World, DantedPath) = 1

\* C5: when an overlay is mounted at /etc inside the namespace set, an up that
\* reaches create_etc_overlay_inside mounts no further overlay and does not
\* write the configuration files again.
C5_OverlayDetected ==
    (etcOverlays > 0 /\ nsMount["mount"] = CurNs(World)) =>
        \A r \in UpRuns :
            "create_etc_overlay_inside" \in r.calls =>
                /\ r.etcOverlays = etcOverlays
                /\ r.calls \cap {"write_conf", "spawn_mount_overlay"} = {}

NamespaceUmounts == {"umount_user", "umount_pid", "umount_mount", "umount_net"}

StepsAfterStatus ==
    CreationCalls \cup NetworkCreationCalls \cup
    {"create_etc_overlay_inside", "spawn_mount_query", "write_conf",
     "spawn_mount_overlay", "mount_overlay",
     "setup_private_networking", "setup_external_networking",
     "spawn_process_inside", "spawn_warp_svc", "spawn_danted"}

\* C6: when the status is Partial, up fails, with the error that tells to run
\* down first once it reaches the status query; it creates no namespace,
\* unmounts none, mounts no overlay, sets up no networking and spawns no
\* process, and the set of mounted kinds is unchanged.
C6_PartialRefused ==
    status(World).tag = "Partial" =>
        \A r \in UpRuns :
            /\ r.err # NoErr
            /\ "status" \in r.calls => r.err = "partially mounted"
            /\ r.calls \cap (StepsAfterStatus \cup NamespaceUmounts) = {}
            /\ MountedSet(r) = MountedSet(World)
            /\ r.procs = procs

C6_Witness ==
    /\ last.op = "up" /\ ~last.ok /\ last.found = "Partial"
    /\ status(World).tag = "Partial"

\* C7: when the status is Ready and up reaches the status query, then with
\* no tini process in the pid namespace up fails with the error that tells to
\* run down first and enters none of the later steps, and with one it goes on
\* to the overlay step holding that process as the init handle.
C7_ReadyNeedsInit ==
    status(World).tag = "Ready" =>
        \A r \in UpRuns :
            "status" \in r.calls =>
                IF InitAlive(World)
                THEN /\ \E p \in procs :
                           /\ p.pid = r.init /\ p.pidns = nsMount["pid"]
                           /\ p.argv0[1] = "tini"
                     /\ "create_etc_overlay_inside" \in r.calls
                ELSE /\ r.err = "init process is dead"
                     /\ r.calls \cap StepsAfterStatus = {}

C7_Witness ==
    /\ last.op = "up" /\ ~last.ok /\ last.found = "Ready"
    /\ status(World).tag = "Ready" /\ ~InitAlive(World)

\* C8: the only failure that makes down return an error is that of deleting
\* the host-side veth endpoint.
C8_BestEffortTeardown ==
    \A r \in DownRuns : r.err # NoErr => r.err = "ip_link_delete"

\* C9: when no namespace kind is mounted, veth-warp is absent and no
\* supervised process is found, down returns Ok, unmounts no namespace mount
\* point and runs no command inside a namespace.
C9_DownOnNothing ==
    (status(World).tag = "None" /\ hostVeth = "absent" /\ NoSupervised(World)) =>
        \A r \in DownRuns :
            /\ r.err = NoErr
            /\ r.calls \cap (NamespaceUmounts \cup
                             {"umount_proc", "umount_etc", "ns_link_delete"}) = {}

C9_Witness ==
    /\ last.op = "down" /\ last.ok /\ last.found = "idle"
    /\ status(World).tag = "None" /\ hostVeth = "absent"

\* C10: when the mount command of the overlay exits with a non-success
\* status, up returns an error and does not go on to the networking steps.
C10_OverlayFailureAborts ==
    \A r \in UpRuns :
        "mount_overlay_failed" \in r.calls =>
            r.err # NoErr /\ "setup_private_networking" \notin r.calls

\* C11: when the helper stays alive with one task and shows no child for one
\* second, create_namespaces fails on the timeout and gives no init process
\* handle, and up fails without entering the overlay, networking or spawn
\* steps.
C11_TimeoutAborts ==
    \A env \in UpEnvs(World) :
        env.poll.res = "timeout" =>
            LET r == up(World, env)
            IN r.over \/ /\ "spawn_unshare" \in r.calls
                         /\ r.err = "timeout"
                         /\ r.init = 0
                         /\ r.calls \cap (StepsAfterStatus \ CreationCalls) = {}
                         /\ r.procs = procs

C11_Witness ==
    /\ last.op = "up" /\ last.timeout /\ ~last.ok /\ last.init = 0
    /\ ~HasProc(World, WarpSvc) /\ etcOverlays = 0 /\ hostVeth = "absent"

\* C12: no kind is mounted while the base directory does not exist, and when
\* create_namespaces returns an init process handle all four kinds are
\* mounted.
C12_AllMountedAtReturn ==
    /\ ~baseExists => MountedSet(World) = {}
    /\ \A r \in UpRuns :
          ("create_namespaces" \in r.calls /\ r.init # 0) => r.seen = Types

\* What status has to return for the set S of mounted kinds.
StatusOf(S) ==
    IF S = {} THEN [tag |-> "None", set |-> {}]
    ELSE IF S = Types THEN [tag |-> "Ready", set |-> {}]
    ELSE [tag |-> "Partial", set |-> S]

\* C13: for every set S of mounted kinds a call of status returns None iff S
\* is empty, Ready iff S holds all four kinds and Partial(S) otherwise, S then
\* having 1 to 3 kinds; the result is that of the mount table at the call.
C13_StatusOfMounted ==
    fnOut.fn = "status" =>
        /\ fnOut.res = StatusOf(fnOut.mounted)
        /\ fnOut.res.tag = "None" <=> fnOut.mounted = {}
        /\ fnOut.res.tag = "Ready" <=> fnOut.mounted = Types
        /\ fnOut.res.tag = "Partial" =>
              /\ fnOut.res.set = fnOut.mounted
              /\ Cardinality(fnOut.res.set) \in 1..3

C13_Witness ==
    /\ fnOut.fn = "status" /\ fnOut.mounted = fnIn.mounted
    /\ fnOut.was = "Ready" /\ fnOut.res.tag = "Partial"
    /\ Cardinality(fnOut.res.set) = 3

\* The first token, and the first token "dev", of a text split at spaces.
FirstDev(parts) ==
    {i \in 1..Len(parts) : parts[i] = <<"dev">> /\ \A j \in 1..(i - 1) : parts[j] # <<"dev">>}

\* C14: parse_iface_name returns the token right after the first "dev" token
\* when the first token is "default", and fails when the first token is not
\* "default", when no token is "dev", or when "dev" is the last token.
C14_ParseIfaceName ==
    fnOut.fn = "parse" =>
        LET parts == Split(fnIn.out)
            fails == \/ parts[1] # <<"default">>
                     \/ FirstDev(parts) = {}
                     \/ Len(parts) \in FirstDev(parts)
        IN IF fails THEN ~fnOut.res.ok
           ELSE /\ fnOut.res.ok
                /\ \E i \in FirstDev(parts) : fnOut.res.name = parts[i + 1]

C14_Witness ==
    /\ fnOut.fn = "parse"
    /\ fnIn.out = <<"default", " ", "dev", " ", "eth0">>
    /\ fnOut.res = [ok |-> TRUE, name |-> <<"eth0">>]

RECURSIVE Repeat(_, _)
Repeat(x, n) == IF n = 0 THEN <<>> ELSE <<x>> \o Repeat(x, n - 1)

\* C20: for each of the three rules in turn, with k copies in the table the
\* delete command succeeds k times and then fails once; no copy is left, and
\* cleanup_external_networking returns Ok.
C20_DeleteUntilFailure ==
    fnOut.fn = "delete" =>
        /\ fnOut.ok
        /\ fnOut.left = EmptyBag
        /\ fnOut.deletes =
              Repeat("iptables_D", fnIn.copies[1]) \o <<"iptables_D_failed">>
              \o Repeat("iptables_D", fnIn.copies[2]) \o <<"iptables_D_failed">>
              \o Repeat("iptables_D", fnIn.copies[3]) \o <<"iptables_D_failed">>

C20_Witness ==
    /\ fnOut.fn = "delete" /\ fnOut.ok /\ fnOut.left = EmptyBag
    /\ fnIn.copies[1] = 2 /\ fnIn.copies[2] = 0 /\ fnIn.copies[3] = 1
    /\ Len(fnOut.deletes) = 6

\* The places of command c in a run's log.
Places(log, c) == {i \in 1..Len(log) : log[i] = c}

\* C15: whenever a namespace kind is mounted the base directory is bind
\* mounted on itself; an up that creates or mounts namespace mount points has
\* the bind mount in place before, found or made by an earlier command of the
\* run; a down that unmounts the base directory leaves no kind mounted.
C15_BaseDirContainment ==
    /\ MountedSet(World) # {} => baseBind > 0
    /\ \A r \in UpRuns :
          \A i \in Places(r.log, "create_mount_point") \cup Places(r.log, "spawn_unshare") :
              \/ r.over
              \/ /\ r.baseBind > 0
                 /\ baseBind > 0 \/ \E j \in Places(r.log, "mount_bind") : j < i
    /\ \A r \in DownRuns :
          ("umount_base" \in r.calls \/ r.baseBind < baseBind) => MountedSet(r) = {}

C15_Witness ==
    /\ last.op = "down" /\ ~last.ok
    /\ MountedSet(World) # {} /\ MountedSet(World) # Types
    /\ baseBind > 0

\* The host a command left, as the next command finds it.
Left(r) ==
    [r EXCEPT !.err = NoErr, !.calls = {}, !.log = <<>>, !.failed = FALSE,
              !.init = 0, !.seen = {}, !.over = FALSE]

C17_NoProcessLeft ==
    (last.op = "down" /\ last.ok /\ last.prev # "none") =>
        \A p \in procs : p.argv0 \notin {Tini, Unshare, WarpSvc, DantedPath}

\* C18: whenever setup_private_networking returns Ok in a run of up (up then
\* enters setup_external_networking), veth-warp is in the host namespace,
\* addressed and up, and veth-warp-ns is in the set's network namespace,
\* addressed and up.
C18_VethConfigured ==
    \A r \in UpRuns :
        "setup_external_networking" \in r.calls =>
            /\ r.hostVeth = "up"
            /\ r.nsVeth = [ns |-> NetNs(r), st |-> "up"]

\* C19: over runs of up with no down in between, failing ones included, the
\* firewall table holds each of the three rules at most once.
C19_RulesAtMostOnce ==
    \A i \in 1..3 : CountRule(rules, UpRules(HostIface)[i]) <= 1

\* C21: in a run of up that spawns the helper, the wait loop fails when the
\* helper has exited, when it shows a number of tasks other than one, when it
\* shows more than one child, and when its one child is not alive; when it
\* shows one child that is alive the handle is that child, and up goes on; a
\* handle is held only for the one child the helper showed.
C21_InitDiscovery ==
    \A env \in UpEnvs(World) :
        LET r == up(World, env)
            poll == env.poll
        IN ("spawn_unshare" \in r.calls /\ "spawn_unshare" \notin env.faults
              /\ ~r.over) =>
             /\ poll.res = "exited" => r.err = "unshare exited" /\ r.init = 0
             /\ poll.res = "tasks" => r.err = "unshare tasks" /\ r.init = 0
             /\ poll.res = "children" => r.err = "unshare children" /\ r.init = 0
             /\ (poll.res = "child" /\ ~poll.alive) =>
                   r.err = "init died" /\ r.init = 0
             /\ (poll.res \in {"child", "early"} /\ poll.alive) =>
                   /\ r.init = PolledChild(World, poll)
                   /\ "create_etc_overlay_inside" \in r.calls
             /\ r.init # 0 =>
                   /\ poll.res \in {"child", "early"} /\ poll.alive
                   /\ r.init = PolledChild(World, poll)

C21_Witness ==
    /\ last.op = "up" /\ last.ok /\ last.found = "idle"
    /\ \E p \in procs, h \in procs :
          /\ p.pid = last.init /\ p.ppid = h.pid /\ h.argv0 = Unshare
          /\ \A q \in procs : q.ppid = h.pid => q = p

\* What private_self_bind_mount_base_dir returned in run r of up that called
\* it: the command it failed on.
BindErrors == {"mount_bind", "mount_private"}

Matching == {p \in fnIn.table : Len(p.argv0) > 0 /\ EndsWith(p.argv0, fnIn.name)}

\* C23: find_process_in_namespace returns a pid only of a process whose
\* argument-zero ends with the name and whose network namespace is not the
\* host's, and none when every match is in the host's network namespace; no
\* process that down ends is in the host's network namespace.
C23_HostProcessesSpared ==
    fnOut.fn = "find" =>
        /\ fnOut.pid # 0 => \E p \in Matching : p.pid = fnOut.pid /\ p.netns # 0
        /\ (\A p \in Matching : p.netns = 0) => fnOut.pid = 0
        /\ \A p \in fnOut.killed : p.netns # 0

C23_Witness ==
    /\ fnOut.fn = "find" /\ fnIn.name = WarpSvc
    /\ \E p \in Matching, q \in Matching :
          /\ p.netns = 0 /\ q.netns # 0 /\ p.pid < q.pid
          /\ fnOut.pid = q.pid
          /\ q \in fnOut.killed /\ p \notin fnOut.killed

====
